---------------------------- MODULE Spec2Model ----------------------------
(***************************************************************************)
(* GitGutter command core (git_gutter.py): the enablement gate             *)
(* GitGutterCommand.is_enabled, the dispatcher GitGutterCommand.run with   *)
(* _handle_event and _handle_subcommand, over one view (document).         *)
(*                                                                         *)
(* Every operation is one atomic action (the plugin host runs a command    *)
(* to completion).  The calls an operation makes on its collaborators and  *)
(* the writes it performs are recorded, in program order, in its calls.    *)
(***************************************************************************)
EXTENDS Naturals, Sequences, FiniteSets

VARIABLES
    git_binary_path, \* settings.git_binary_path is set (truthy)
    view,            \* the view: window, flags, encoding, settings bag
    in_repo,         \* the file currently lies in a git work tree (disk)
    git_tree,        \* work tree cached by the GitGutterHandler
    _enabled,        \* GitGutterCommand._enabled
    gate,            \* the last is_enabled call: request, outcome, calls,
                     \* the cached state it found, the conditions it read
    disp,            \* the last run call: request, outcome, calls, and
                     \* whether the gate would have passed the request
    prev,            \* outcome of the is_enabled call before the last one
    dirty,           \* a gate input changed since the last gate evaluation
    repeat,          \* the last gate evaluation repeated the one before it
    nEvent,          \* completed event-mode dispatches
    nRefresh,        \* calls of show_diff_handler.run()
    aux,             \* the last GitGutterBaseCommand.is_enabled call
    threads,         \* is_enabled calls in progress, one per host thread
    clears           \* clear() calls since _enabled was last saved as True

\* what the commands of one thread, run to completion, leave alone
others == <<aux, threads, clears>>

vars == <<git_binary_path, view, in_repo, git_tree, _enabled, gate, disp,
          prev, dirty, repeat, nEvent, nRefresh, aux, threads, clears>>

(***************************************************************************)
(* Bounds.                                                                 *)
(***************************************************************************)
MaxEvents == 2   \* largest event_type list a request carries
MaxRuns == 2     \* dispatches counted per behaviour

(***************************************************************************)
(* Values.                                                                 *)
(***************************************************************************)
\* An optional value: <<>> is "key absent", <<v>> is "key present with v".
None == <<>>

Some(v) == <<v>>

\* dict.get(key, default) / settings().get(key, default)
Get(opt, default) == IF opt = None THEN default ELSE opt[1]

EventNames == {"load", "activated", "post-save", "modified"}

EventLists == {s \in SUBSET EventNames : Cardinality(s) <= MaxEvents}

\* kwargs.get('event_type'): absent, or a list of event names
EventTypes == {None} \cup {Some(s) : s \in EventLists}

Actions == {"jump_to_next_change", "jump_to_prev_change",
            "compare_against_commit", "compare_against_file_commit",
            "compare_against_branch", "compare_against_tag",
            "compare_against_head", "compare_against_origin",
            "show_compare", "show_diff_popup"}

\* an identifier the dispatcher does not list
UnknownAction == "unknown_action"

Points == {0, 120}

Flags == {0, 1}

\* One recorded call or write.  arg is the boolean argument (validate of
\* work_tree, the value written, highlight_diff of the popup).
\* handler is "git_handler" when self.git_handler is passed along; ret is
\* the boolean a collaborator returned (work_tree).
Call(fn) ==
    [fn |-> fn, handler |-> "", arg |-> FALSE, ret |-> FALSE, point |-> 0,
     flags |-> 0]

CallArg(fn, b) == [Call(fn) EXCEPT !.arg = b]

CallOn(fn, handler) == [Call(fn) EXCEPT !.handler = handler]

\* number of recorded calls of fn
RECURSIVE Count(_, _)
Count(calls, fn) ==
    IF calls = <<>> THEN 0
    ELSE (IF Head(calls).fn = fn THEN 1 ELSE 0) + Count(Tail(calls), fn)

\* the host threads that may call is_enabled
Threads == {"A", "B"}

\* the boolean flags of the view that the host may change
ViewFlags == {"window", "is_scratch", "is_read_only", "is_widget", "repl",
              "hexadecimal"}


\* The keyword arguments of one request (kwargs of is_enabled and of run).
Kwargs(action, event_type, point, highlight_diff, flags) ==
    [point |-> point, flags |-> flags, action |-> action,
     event_type |-> event_type, highlight_diff |-> highlight_diff]

\* requests of the gate: an event context, or nothing
GateRequests == {Kwargs(None, et, None, None, None) : et \in EventTypes}

\* requests without 'action'
EventRequests == {Kwargs(None, et, None, None, None) : et \in EventTypes}

\* requests with 'action'; the popup request carries its three parameters;
\* an action request may carry an event_type as well
ActionEventTypes == {None, Some({"post-save"})}

PlainActionRequests ==
    {Kwargs(Some(a), et, None, None, None) :
        a \in (Actions \ {"show_diff_popup"}) \cup {UnknownAction},
        et \in ActionEventTypes}

PopupRequests ==
    {Kwargs(Some("show_diff_popup"), et, Some(p), Some(h), Some(f)) :
        et \in ActionEventTypes, p \in Points, h \in BOOLEAN, f \in Flags}

RunRequests == EventRequests \cup PlainActionRequests \cup PopupRequests

NoKwargs == Kwargs(None, None, None, None, None)

(***************************************************************************)
(* GitGutterCommand.is_enabled                                             *)
(***************************************************************************)
\* Mutant: scratch views are not ruled out.
CheapChecksNoScratch(binary, v) ==
    IF ~binary THEN FALSE
    ELSE IF ~v.window THEN FALSE
    ELSE IF v.is_read_only THEN FALSE
    ELSE IF v.is_widget THEN FALSE
    ELSE IF v.repl THEN FALSE
    ELSE IF v.hexadecimal THEN FALSE
    ELSE TRUE

\* Lines 41-57: none of the six in-memory conditions rules the view out.
CheapChecks(binary, v) ==
    IF ~binary THEN FALSE
    ELSE IF ~v.window THEN FALSE
    ELSE IF v.is_scratch \/ v.is_read_only THEN FALSE
    ELSE IF v.is_widget THEN FALSE
    ELSE IF v.repl THEN FALSE
    ELSE IF v.hexadecimal THEN FALSE
    ELSE TRUE

\* Mutant: every condition is evaluated, whatever the earlier ones gave.
ConditionsCheckedAll(binary, v) ==
    <<"git_binary_path", "window", "is_scratch or is_read_only",
      "is_widget", "repl", "encoding">>

\* Lines 41-57: the conditions of the if/elif chain that are evaluated, in
\* program order; a condition that holds ends the chain.
ConditionsChecked(binary, v) ==
    <<"git_binary_path">> \o
    (IF ~binary THEN <<>> ELSE <<"window">> \o
    (IF ~v.window THEN <<>> ELSE <<"is_scratch or is_read_only">> \o
    (IF v.is_scratch \/ v.is_read_only THEN <<>> ELSE <<"is_widget">> \o
    (IF v.is_widget THEN <<>> ELSE <<"repl">> \o
    (IF v.repl THEN <<>> ELSE <<"encoding">>)))))

\* Mutant: 'modified' validates the work tree as well.
ValidateOnModified(kwargs) ==
    \E event \in Get(kwargs.event_type, {}) :
        event \in {"load", "activated", "post-save", "modified"}

\* Lines 60-61: validate the work tree on certain events only.
Validate(kwargs) ==
    \E event \in Get(kwargs.event_type, {}) :
        event \in {"load", "activated", "post-save"}

\* GitGutterHandler.work_tree(validate): a validating call probes the
\* repository, a non-validating call answers from the cached work tree.
WorkTree(validate, repo, tree) == IF validate THEN repo ELSE tree

\* Lines 38-64: the value of `valid`.
Valid(binary, v, repo, tree, kwargs) ==
    IF CheapChecks(binary, v)
    THEN WorkTree(Validate(kwargs), repo, tree)
    ELSE FALSE

\* Lines 58-64: the work tree is resolved in the else branch only.
WorkTreeCalls(binary, v, repo, tree, kwargs) ==
    IF CheapChecks(binary, v)
    THEN <<[CallArg("work_tree", Validate(kwargs)) EXCEPT
               !.handler = "git_handler",
               !.ret = WorkTree(Validate(kwargs), repo, tree)]>>
    ELSE <<>>

\* Mutant: the private cache is not saved.
ChangedStateCallsNoCache(valid, enabled) ==
    IF valid # enabled
    THEN (IF ~valid THEN <<Call("clear")>> ELSE <<>>)
         \o <<CallArg("settings.set", valid)>>
    ELSE <<>>

\* Mutant: the gutter is cleared after the state is saved.
ChangedStateCallsClearLast(valid, enabled) ==
    IF valid # enabled
    THEN <<CallArg("settings.set", valid), CallArg("_enabled", valid)>>
         \o (IF ~valid THEN <<Call("clear")>> ELSE <<>>)
    ELSE <<>>

\* Mutant: the state is handled without change detection.
ChangedStateCallsAlways(valid, enabled) ==
    (IF ~valid THEN <<Call("clear")>> ELSE <<>>)
    \o <<CallArg("settings.set", valid), CallArg("_enabled", valid)>>

\* Mutant: the gutter is cleared on every change of state.
ChangedStateCallsClearAny(valid, enabled) ==
    IF valid # enabled
    THEN <<Call("clear"), CallArg("settings.set", valid),
           CallArg("_enabled", valid)>>
    ELSE <<>>

\* Lines 66-74: the calls and writes of the changed-state block.
ChangedStateCalls(valid, enabled) ==
    IF valid # enabled
    THEN (IF ~valid THEN <<Call("clear")>> ELSE <<>>)
         \o <<CallArg("settings.set", valid), CallArg("_enabled", valid)>>
    ELSE <<>>

\* Lines 35-75: everything is_enabled calls and writes, in program order.
IsEnabledCalls(binary, v, repo, tree, enabled, kwargs) ==
    WorkTreeCalls(binary, v, repo, tree, kwargs)
    \o ChangedStateCalls(Valid(binary, v, repo, tree, kwargs), enabled)

\* The value a sequence of recorded writes leaves in a variable.
RECURSIVE Written(_, _, _)
Written(calls, fn, old) ==
    IF calls = <<>> THEN old
    ELSE LET c == calls[Len(calls)]
         IN IF c.fn = fn THEN c.arg
            ELSE Written(SubSeq(calls, 1, Len(calls) - 1), fn, old)

\* The same for a key of the settings bag, absent until first written.
RECURSIVE WrittenOpt(_, _, _)
WrittenOpt(calls, fn, old) ==
    IF calls = <<>> THEN old
    ELSE LET c == calls[Len(calls)]
         IN IF c.fn = fn THEN Some(c.arg)
            ELSE WrittenOpt(SubSeq(calls, 1, Len(calls) - 1), fn, old)

\* One call of is_enabled(**kwargs) that returns.
IsEnabled(kwargs) ==
    LET valid == Valid(git_binary_path, view, in_repo, git_tree, kwargs)
        calls == IsEnabledCalls(git_binary_path, view, in_repo, git_tree,
                                _enabled, kwargs)
    IN /\ git_tree' = IF CheapChecks(git_binary_path, view)
                      THEN WorkTree(Validate(kwargs), in_repo, git_tree)
                      ELSE git_tree
       /\ _enabled' = Written(calls, "_enabled", _enabled)
       /\ view' = [view EXCEPT !.git_gutter_enabled =
                      WrittenOpt(calls, "settings.set", @)]
       /\ gate' = [ret |-> valid, calls |-> calls, kwargs |-> kwargs,
                   outcome |-> "returned", cached |-> _enabled,
                   checks |-> ConditionsChecked(git_binary_path, view)]
       /\ prev' = [ret |-> gate.ret, outcome |-> gate.outcome]
       /\ repeat' = /\ gate.outcome = "returned"
                    /\ gate.kwargs = kwargs
                    /\ ~dirty
       /\ dirty' = FALSE
       /\ UNCHANGED <<others, git_binary_path, in_repo, disp, nEvent, nRefresh>>

Evaluate == \E kwargs \in GateRequests : IsEnabled(kwargs)

\* One call of is_enabled(**kwargs) in which clear() (line 70) raises: the
\* call ends there and the exception reaches the host.
IsEnabledRaising(kwargs) ==
    LET all == IsEnabledCalls(git_binary_path, view, in_repo, git_tree,
                              _enabled, kwargs)
        at == CHOOSE i \in DOMAIN all : all[i].fn = "clear"
        calls == SubSeq(all, 1, at)
    IN /\ Count(all, "clear") > 0
       /\ git_tree' = IF CheapChecks(git_binary_path, view)
                      THEN WorkTree(Validate(kwargs), in_repo, git_tree)
                      ELSE git_tree
       /\ _enabled' = Written(calls, "_enabled", _enabled)
       /\ view' = [view EXCEPT !.git_gutter_enabled =
                      WrittenOpt(calls, "settings.set", @)]
       /\ gate' = [ret |-> FALSE, calls |-> calls, kwargs |-> kwargs,
                   outcome |-> "raised", cached |-> _enabled,
                   checks |-> ConditionsChecked(git_binary_path, view)]
       /\ prev' = [ret |-> gate.ret, outcome |-> gate.outcome]
       /\ repeat' = /\ gate.outcome = "returned"
                    /\ gate.kwargs = kwargs
                    /\ ~dirty
       /\ dirty' = FALSE
       /\ UNCHANGED <<others, git_binary_path, in_repo, disp, nEvent,
                      nRefresh>>

(***************************************************************************)
(* GitGutterCommand.is_enabled statement by statement, for a host that     *)
(* delivers events of one view on two threads without a lock.  Each thread *)
(* evaluates the gate once per pair of events, on ['load'].                *)
(***************************************************************************)
RaceKwargs == Kwargs(None, Some({"load"}), None, None, None)

\* Lines 37-64: compute `valid`.
Compute(t) ==
    /\ threads[t].pc = "idle"
    /\ threads' = [threads EXCEPT ![t] =
          [valid |-> Valid(git_binary_path, view, in_repo, git_tree,
                           RaceKwargs),
           pc |-> "computed",
           todo |-> <<>>]]
    /\ git_tree' = IF CheapChecks(git_binary_path, view)
                   THEN WorkTree(Validate(RaceKwargs), in_repo, git_tree)
                   ELSE git_tree
    /\ UNCHANGED <<git_binary_path, view, in_repo, _enabled, gate, disp, prev,
                   dirty, repeat, nEvent, nRefresh, aux, clears>>

\* Line 67 (and 69): compare with the cache, which decides what follows.
Compare(t) ==
    /\ threads[t].pc = "computed"
    /\ threads' = [threads EXCEPT ![t].pc = "acting",
                                  ![t].todo =
                                     ChangedStateCalls(threads[t].valid,
                                                       _enabled)]
    /\ UNCHANGED <<git_binary_path, view, in_repo, git_tree, _enabled, gate,
                   disp, prev, dirty, repeat, nEvent, nRefresh, aux, clears>>

\* Lines 70, 72, 74: the next statement of the changed-state block.
Act(t) ==
    /\ threads[t].pc = "acting"
    /\ threads[t].todo # <<>>
    /\ LET c == Head(threads[t].todo)
       IN /\ clears' = IF c.fn = "clear" THEN clears + 1
                       ELSE IF c.fn = "_enabled" /\ c.arg THEN 0
                       ELSE clears
          /\ view' = IF c.fn = "settings.set"
                     THEN [view EXCEPT !.git_gutter_enabled = Some(c.arg)]
                     ELSE view
          /\ _enabled' = IF c.fn = "_enabled" THEN c.arg ELSE _enabled
    /\ threads' = [threads EXCEPT ![t].todo = Tail(@)]
    /\ UNCHANGED <<git_binary_path, in_repo, git_tree, gate, disp, prev,
                   dirty, repeat, nEvent, nRefresh, aux>>

\* Line 75: return valid.
Return(t) ==
    /\ threads[t].pc = "acting"
    /\ threads[t].todo = <<>>
    /\ threads' = [threads EXCEPT ![t].pc = "done"]
    /\ UNCHANGED <<git_binary_path, view, in_repo, git_tree, _enabled, gate,
                   disp, prev, dirty, repeat, nEvent, nRefresh, aux, clears>>

\* no evaluation is in progress
Quiet == \A t \in Threads : threads[t].pc \in {"idle", "done"}

\* The host delivers the next events once the evaluations have returned.
NextEvents ==
    /\ Quiet
    /\ \E t \in Threads : threads[t].pc = "done"
    /\ threads' = [t \in Threads |-> [threads[t] EXCEPT !.pc = "idle"]]
    /\ UNCHANGED <<git_binary_path, view, in_repo, git_tree, _enabled, gate,
                   disp, prev, dirty, repeat, nEvent, nRefresh, aux, clears>>

Step == \E t \in Threads : Compute(t) \/ Compare(t) \/ Act(t) \/ Return(t)

(***************************************************************************)
(* The host: the document and the configuration change between commands.  *)
(***************************************************************************)
HostChangeViewIn(changing) ==
    /\ \E f \in changing : view' = [view EXCEPT ![f] = ~@]
    /\ dirty' = TRUE
    /\ UNCHANGED <<others, git_binary_path, in_repo, git_tree, _enabled,
                   gate, disp, prev, repeat, nEvent, nRefresh>>

HostChangeView == HostChangeViewIn(ViewFlags)

HostChangeBinary ==
    /\ git_binary_path' = ~git_binary_path
    /\ dirty' = TRUE
    /\ UNCHANGED <<others, view, in_repo, git_tree, _enabled, gate, disp,
                   prev, repeat, nEvent, nRefresh>>

HostChangeRepo ==
    /\ in_repo' = ~in_repo
    /\ dirty' = TRUE
    /\ UNCHANGED <<others, git_binary_path, view, git_tree, _enabled, gate,
                   disp, prev, repeat, nEvent, nRefresh>>

(***************************************************************************)
(* GitGutterCommand.run, _handle_event, _handle_subcommand                 *)
(***************************************************************************)
\* Mutant: all() where the code has any().
InvalidatesGitFileAll(kwargs) ==
    \A event \in Get(kwargs.event_type, {}) :
        event \notin {"load", "modified"}

\* Line 86: some event is neither 'load' nor 'modified'.
InvalidatesGitFile(kwargs) ==
    \E event \in Get(kwargs.event_type, {}) :
        event \notin {"load", "modified"}

\* Mutant: no refresh without an event.
HandleEventCallsSkipEmpty(kwargs) ==
    IF Get(kwargs.event_type, {}) = {} THEN <<>>
    ELSE (IF InvalidatesGitFile(kwargs)
          THEN <<CallOn("invalidate_git_file", "git_handler")>>
          ELSE <<>>)
         \o <<Call("show_diff_handler.run")>>

\* Lines 84-91: the calls of _handle_event.
HandleEventCalls(kwargs) ==
    (IF InvalidatesGitFile(kwargs)
     THEN <<CallOn("invalidate_git_file", "git_handler")>>
     ELSE <<>>)
    \o <<Call("show_diff_handler.run")>>

\* Mutant: point and flags change places.
PopupCallSwapped(kwargs) ==
    [fn |-> "show_diff_popup", handler |-> "git_handler",
     arg |-> kwargs.highlight_diff[1], ret |-> FALSE,
     point |-> kwargs.flags[1], flags |-> kwargs.point[1]]

\* Lines 113-119: show_diff_popup(point, self.git_handler, ...).
PopupCall(kwargs) ==
    [fn |-> "show_diff_popup", handler |-> "git_handler",
     arg |-> kwargs.highlight_diff[1], ret |-> FALSE,
     point |-> kwargs.point[1], flags |-> kwargs.flags[1]]

\* Lines 93-121: the if/elif chain of _handle_subcommand; <<>> is the
\* final else branch.
HandleSubcommandCalls(kwargs) ==
    LET action == kwargs.action[1]
    IN IF action = "jump_to_next_change"
       THEN <<CallOn("GitGutterJumpToChanges.jump_to_next_change",
                     "git_handler")>>
       ELSE IF action = "jump_to_prev_change"
       THEN <<CallOn("GitGutterJumpToChanges.jump_to_prev_change",
                     "git_handler")>>
       ELSE IF action = "compare_against_commit"
       THEN <<CallOn("GitGutterCompareCommit.run", "git_handler")>>
       ELSE IF action = "compare_against_file_commit"
       THEN <<CallOn("GitGutterCompareFileCommit.run", "git_handler")>>
       ELSE IF action = "compare_against_branch"
       THEN <<CallOn("GitGutterCompareBranch.run", "git_handler")>>
       ELSE IF action = "compare_against_tag"
       THEN <<CallOn("GitGutterCompareTag.run", "git_handler")>>
       ELSE IF action = "compare_against_head"
       THEN <<CallOn("GitGutterCompareHead.run", "git_handler")>>
       ELSE IF action = "compare_against_origin"
       THEN <<CallOn("GitGutterCompareOrigin.run", "git_handler")>>
       ELSE IF action = "show_compare"
       THEN <<CallOn("GitGutterShowCompare.run", "git_handler")>>
       ELSE IF action = "show_diff_popup"
       THEN <<PopupCall(kwargs)>>
       ELSE <<>>

\* Mutant: the final else branch passes.
AssertsNever(kwargs) == FALSE

\* Lines 120-121: the final else branch asserts False.
Asserts(kwargs) ==
    LET action == kwargs.action[1]
    IN action \notin {"jump_to_next_change", "jump_to_prev_change",
                      "compare_against_commit", "compare_against_file_commit",
                      "compare_against_branch", "compare_against_tag",
                      "compare_against_head", "compare_against_origin",
                      "show_compare", "show_diff_popup"}

\* Mutant: events are dropped.
RunCallsNoEvents(kwargs) ==
    IF kwargs.action # None
    THEN HandleSubcommandCalls(kwargs)
    ELSE <<>>

\* Mutant: a sub command falls through to the event handling.
RunCallsFallThrough(kwargs) ==
    IF kwargs.action # None
    THEN HandleSubcommandCalls(kwargs) \o HandleEventCalls(kwargs)
    ELSE HandleEventCalls(kwargs)

\* Mutant: an event_type in the request selects the event handling.
RunCallsEventFirst(kwargs) ==
    IF kwargs.event_type # None \/ kwargs.action = None
    THEN HandleEventCalls(kwargs)
    ELSE HandleSubcommandCalls(kwargs)

\* Lines 79-82: 'action' in kwargs selects the mode.
RunCalls(kwargs) ==
    IF kwargs.action # None
    THEN HandleSubcommandCalls(kwargs)
    ELSE HandleEventCalls(kwargs)

RunOutcome(kwargs) ==
    IF kwargs.action # None /\ Asserts(kwargs)
    THEN "asserted"
    ELSE "returned"

\* Mutant: run evaluates the gate itself and saves what it finds.
RunCommandGated(kwargs, via) ==
    LET valid == Valid(git_binary_path, view, in_repo, git_tree, kwargs)
    IN /\ kwargs.action = None => nEvent < MaxRuns
       /\ disp' = [calls |-> IF valid THEN RunCalls(kwargs) ELSE <<>>,
                   kwargs |-> kwargs, outcome |-> RunOutcome(kwargs),
                   via |-> via, eligible |-> valid]
       /\ nEvent' = IF kwargs.action = None THEN nEvent + 1 ELSE nEvent
       /\ nRefresh' = nRefresh + Count(IF valid THEN RunCalls(kwargs)
                                       ELSE <<>>, "show_diff_handler.run")
       /\ _enabled' = valid
       /\ view' = [view EXCEPT !.git_gutter_enabled = Some(valid)]
       /\ UNCHANGED <<others, git_binary_path, in_repo, git_tree, gate,
                      prev, dirty, repeat>>

\* One call of run(edit, **kwargs); via names the convenience command that
\* issued the request through view.run_command, "" when there is none.
RunCommandVia(kwargs, via) ==
    /\ kwargs.action = None => nEvent < MaxRuns
    /\ disp' = [calls |-> RunCalls(kwargs),
                kwargs |-> kwargs, outcome |-> RunOutcome(kwargs),
                via |-> via,
                eligible |-> Valid(git_binary_path, view, in_repo, git_tree,
                                   kwargs)]
    /\ nEvent' = IF kwargs.action = None THEN nEvent + 1 ELSE nEvent
    /\ nRefresh' = nRefresh + Count(RunCalls(kwargs), "show_diff_handler.run")
    /\ UNCHANGED <<others, git_binary_path, view, in_repo, git_tree,
                   _enabled, gate, prev, dirty, repeat>>

RunCommand(kwargs) == RunCommandVia(kwargs, "")

Run == \E kwargs \in RunRequests : RunCommand(kwargs)

(***************************************************************************)
(* GitGutterBaseCommand and its nine subclasses                            *)
(***************************************************************************)
ConvenienceCommands ==
    {"GitGutterShowCompareCommand", "GitGutterCompareHeadCommand",
     "GitGutterCompareOriginCommand", "GitGutterCompareCommitCommand",
     "GitGutterCompareFileCommitCommand", "GitGutterCompareBranchCommand",
     "GitGutterCompareTagCommand", "GitGutterNextChangeCommand",
     "GitGutterPrevChangeCommand"}

\* Mutant: one command forwards a misspelt identifier.
ForwardedActionTypo(cmd) ==
    CASE cmd = "GitGutterShowCompareCommand" -> "show_compare"
      [] cmd = "GitGutterCompareHeadCommand" -> "compare_against_head"
      [] cmd = "GitGutterCompareOriginCommand" -> "compare_against_origin"
      [] cmd = "GitGutterCompareCommitCommand" -> "compare_against_commit"
      [] cmd = "GitGutterCompareFileCommitCommand" ->
            "compare_against_file_commit"
      [] cmd = "GitGutterCompareBranchCommand" -> "compare_against_branch"
      [] cmd = "GitGutterCompareTagCommand" -> "compare_against_tags"
      [] cmd = "GitGutterNextChangeCommand" -> "jump_to_next_change"
      [] cmd = "GitGutterPrevChangeCommand" -> "jump_to_prev_change"

\* Lines 129-175: the 'action' each subclass passes to view.run_command.
ForwardedAction(cmd) ==
    CASE cmd = "GitGutterShowCompareCommand" -> "show_compare"
      [] cmd = "GitGutterCompareHeadCommand" -> "compare_against_head"
      [] cmd = "GitGutterCompareOriginCommand" -> "compare_against_origin"
      [] cmd = "GitGutterCompareCommitCommand" -> "compare_against_commit"
      [] cmd = "GitGutterCompareFileCommitCommand" ->
            "compare_against_file_commit"
      [] cmd = "GitGutterCompareBranchCommand" -> "compare_against_branch"
      [] cmd = "GitGutterCompareTagCommand" -> "compare_against_tag"
      [] cmd = "GitGutterNextChangeCommand" -> "jump_to_next_change"
      [] cmd = "GitGutterPrevChangeCommand" -> "jump_to_prev_change"

\* Lines 130-175: run(edit) issues view.run_command('git_gutter',
\* {'action': ...}), which the router's run receives.
AuxRun(cmd) ==
    RunCommandVia(Kwargs(Some(ForwardedAction(cmd)), None, None, None, None),
                  cmd)

Forward == \E cmd \in ConvenienceCommands : AuxRun(cmd)

\* Mutant: a view without the setting counts as enabled.
BaseIsEnabledDefaultTrue(v) == Get(v.git_gutter_enabled, TRUE)

\* Line 126: self.view.settings().get('git_gutter_enabled', False).
BaseIsEnabled(v) == Get(v.git_gutter_enabled, FALSE)

\* Lines 125-126: one call of GitGutterBaseCommand.is_enabled.
AuxIsEnabled(cmd) ==
    /\ aux' = [ret |-> BaseIsEnabled(view), cmd |-> cmd]
    /\ UNCHANGED <<git_binary_path, view, in_repo, git_tree, _enabled, gate,
                   disp, prev, dirty, repeat, nEvent, nRefresh, threads,
                   clears>>

Query == \E cmd \in ConvenienceCommands : AuxIsEnabled(cmd)

(***************************************************************************)
(* GitGutterCommand.__init__ on a view the host just opened.               *)
(***************************************************************************)
Init ==
    /\ git_binary_path = TRUE
    /\ view = [window |-> TRUE, is_read_only |-> FALSE, is_widget |-> FALSE,
               repl |-> FALSE, hexadecimal |-> FALSE, is_scratch |-> FALSE,
               git_gutter_enabled |-> None]
    /\ in_repo = TRUE
    /\ git_tree = FALSE
    /\ _enabled = FALSE
    /\ gate = [ret |-> FALSE, calls |-> <<>>, kwargs |-> NoKwargs,
               outcome |-> "none", cached |-> FALSE, checks |-> <<>>]
    /\ disp = [calls |-> <<>>, kwargs |-> NoKwargs, outcome |-> "none",
               via |-> "", eligible |-> FALSE]
    /\ prev = [ret |-> FALSE, outcome |-> "none"]
    /\ dirty = FALSE
    /\ repeat = FALSE
    /\ nEvent = 0
    /\ nRefresh = 0
    /\ aux = [ret |-> FALSE, cmd |-> ""]
    /\ threads = [t \in Threads |->
                    [valid |-> FALSE, pc |-> "idle", todo |-> <<>>]]
    /\ clears = 0

\* The gate under every change of the document and the configuration.
Next == Evaluate \/ HostChangeView \/ HostChangeBinary \/ HostChangeRepo

Spec == Init /\ [][Next]_vars

\* The dispatcher, between gate evaluations (on 'load') of a document that
\* turns scratch and back.
HostChangeScratch == HostChangeViewIn({"is_scratch"})

EvaluateOnLoad == IsEnabled(Kwargs(None, Some({"load"}), None, None, None))

NextRun == Run \/ EvaluateOnLoad \/ HostChangeScratch

SpecRun == Init /\ [][NextRun]_vars

\* The gate with a clear() that may raise, on 'load', under changes of the
\* scratch flag and of the repository.
RaiseOnLoad ==
    IsEnabledRaising(Kwargs(None, Some({"load"}), None, None, None))

NextRaise ==
    EvaluateOnLoad \/ RaiseOnLoad \/ HostChangeScratch \/ HostChangeRepo

SpecRaise == Init /\ [][NextRaise]_vars

\* Two gate evaluations interleaved statement by statement, while the
\* document turns scratch and back.
NextRace == Step \/ NextEvents \/ HostChangeScratch

SpecRace == Init /\ [][NextRace]_vars

\* The convenience commands, between gate evaluations (on 'load') of a
\* document that turns scratch and back.
NextAux == Query \/ Forward \/ EvaluateOnLoad \/ HostChangeScratch

SpecAux == Init /\ [][NextAux]_vars

(***************************************************************************)
(* Properties of the gate (checked under Spec).                            *)
(***************************************************************************)
\* positions of the recorded calls of fn
Positions(calls, fn) == {i \in DOMAIN calls : calls[i].fn = fn}

\* the event context of the last gate evaluation ([] when absent)
GateEvents == Get(gate.kwargs.event_type, {})

\* the last gate evaluation saw the view as it is now
GateSawView == gate.outcome # "none" /\ ~dirty

\* C1: after every completed gate evaluation the mirrored setting
\* 'git_gutter_enabled' (read with default False) equals the private cache
\* _enabled, and both equal the boolean the evaluation returned.
C1_MirrorEqualsCache ==
    gate.outcome = "returned" =>
        /\ Get(view.git_gutter_enabled, FALSE) = _enabled
        /\ _enabled = gate.ret

\* a gate evaluation that returned True after one that returned False
C1_Witness ==
    /\ gate.outcome = "returned" /\ gate.ret
    /\ prev.outcome = "returned" /\ ~prev.ret
    /\ view.git_gutter_enabled = Some(TRUE)

\* C2: a gate evaluation that returns False after the previous one returned
\* True calls clear() exactly once, and before the mirrored flag is written
\* to False.
C2_ClearOnceBeforeFlag ==
    (/\ gate.outcome = "returned" /\ ~gate.ret
     /\ prev.outcome = "returned" /\ prev.ret)
    => /\ Cardinality(Positions(gate.calls, "clear")) = 1
       /\ Cardinality(Positions(gate.calls, "settings.set")) = 1
       /\ \A i \in Positions(gate.calls, "clear") :
            \A j \in Positions(gate.calls, "settings.set") :
                i < j /\ gate.calls[j].arg = FALSE

\* the view turned scratch between an evaluation that returned True and
\* one that returned False
C2_Witness ==
    /\ gate.outcome = "returned" /\ ~gate.ret
    /\ prev.outcome = "returned" /\ prev.ret
    /\ GateSawView /\ view.is_scratch
    /\ view.git_gutter_enabled = Some(FALSE)

\* C3: a gate evaluation that repeats the previous one (same event context,
\* no change of the view, the configuration or the repository in between)
\* returns the same boolean and has no side effect: no clear(), no write of
\* the mirrored flag, no write of the private cache.
C3_Idempotent ==
    repeat =>
        /\ gate.outcome = "returned" /\ prev.outcome = "returned"
        /\ gate.ret = prev.ret
        /\ Positions(gate.calls, "clear") = {}
        /\ Positions(gate.calls, "settings.set") = {}
        /\ Positions(gate.calls, "_enabled") = {}

\* a repeated evaluation of an eligible view, which resolves the work tree
C3_Witness ==
    /\ repeat /\ gate.ret
    /\ Positions(gate.calls, "work_tree") # {}

\* C9 as stated: evaluated on a scratch view the gate returns False, the
\* mirrored flag is set to False, and the work tree is not resolved.
C9_ScratchSetsFlag ==
    (GateSawView /\ view.is_scratch) =>
        /\ gate.outcome = "returned" /\ ~gate.ret
        /\ view.git_gutter_enabled = Some(FALSE)
        /\ Positions(gate.calls, "work_tree") = {}

\* C9 amended: evaluated on a scratch view the gate returns False, the
\* mirrored flag reads False with default False, and the work tree is not
\* resolved; the flag is written (to False) only when the cache was True,
\* so the first evaluation of a view leaves the flag absent.
C9_ScratchReadsFalse ==
    (GateSawView /\ view.is_scratch) =>
        /\ gate.outcome = "returned" /\ ~gate.ret
        /\ Get(view.git_gutter_enabled, FALSE) = FALSE
        /\ Positions(gate.calls, "work_tree") = {}
        /\ \A j \in Positions(gate.calls, "settings.set") :
             /\ gate.calls[j].arg = FALSE
             /\ Positions(gate.calls, "clear") # {}
        /\ prev.outcome = "none" => view.git_gutter_enabled = None

\* the first gate evaluation of a view, which is scratch
C9_Witness ==
    /\ GateSawView /\ view.is_scratch
    /\ prev.outcome = "none"
    /\ ~gate.ret /\ gate.calls = <<>>

\* C10: when the gate resolves the work tree it passes validate = True iff
\* the event context holds one of 'load', 'activated', 'post-save' (False
\* for ['modified'], for [] and for no event_type), and it returns False
\* whenever the resolution returns False.
C10_ValidateOnEvents ==
    \A i \in Positions(gate.calls, "work_tree") :
        /\ gate.calls[i].arg =
             (GateEvents \cap {"load", "activated", "post-save"} # {})
        /\ GateEvents \subseteq {"modified"} => ~gate.calls[i].arg
        /\ ~gate.calls[i].ret => (gate.outcome = "returned" /\ ~gate.ret)

\* 'load' on a view outside any repository: validated, and ineligible
C10_Witness ==
    /\ gate.kwargs.event_type = Some({"load"})
    /\ \E i \in Positions(gate.calls, "work_tree") :
         gate.calls[i].arg /\ ~gate.calls[i].ret
    /\ gate.outcome = "returned" /\ ~gate.ret

\* the conditions of the gate in the order the claim gives them
ConditionOrder ==
    <<"git_binary_path", "window", "is_scratch or is_read_only",
      "is_widget", "repl", "encoding">>

\* the condition rules the view out, as the view is now
Fails(c) ==
    CASE c = "git_binary_path" -> ~git_binary_path
      [] c = "window" -> ~view.window
      [] c = "is_scratch or is_read_only" ->
            view.is_scratch \/ view.is_read_only
      [] c = "is_widget" -> view.is_widget
      [] c = "repl" -> view.repl
      [] c = "encoding" -> view.hexadecimal

\* C14: the gate reads its conditions in the fixed order and stops at the
\* first one that fails; it resolves the work tree iff all six conditions
\* pass, after them, and at most once.
C14_ShortCircuit ==
    GateSawView =>
        /\ \E n \in 1..Len(ConditionOrder) :
             /\ gate.checks = SubSeq(ConditionOrder, 1, n)
             /\ \A i \in 1..(n - 1) : ~Fails(ConditionOrder[i])
             /\ n < Len(ConditionOrder) => Fails(ConditionOrder[n])
        /\ (Positions(gate.calls, "work_tree") # {})
             <=> (\A i \in DOMAIN ConditionOrder : ~Fails(ConditionOrder[i]))
        /\ Positions(gate.calls, "work_tree") \subseteq {1}

\* a read-only widget showing binary content: the chain stops at the third
\* condition and the work tree is not resolved
C14_Witness ==
    /\ GateSawView
    /\ view.is_read_only /\ view.is_widget /\ view.hexadecimal
    /\ Len(gate.checks) = 3
    /\ Positions(gate.calls, "work_tree") = {}

\* C15: an evaluation calls clear() iff it computes False while the cached
\* value is True (so never when turning eligible, never when nothing
\* changed, never as the first evaluation of a command), and it writes the
\* mirrored flag iff its result differs from the cached value.
C15_SideEffectsOnTransition ==
    gate.outcome = "returned" =>
        /\ (Positions(gate.calls, "clear") # {})
             <=> (gate.cached /\ ~gate.ret)
        /\ Cardinality(Positions(gate.calls, "clear")) <= 1
        /\ (Positions(gate.calls, "settings.set") # {})
             <=> (gate.ret # gate.cached)
        /\ Cardinality(Positions(gate.calls, "settings.set")) <= 1
        /\ \A j \in Positions(gate.calls, "settings.set") :
             gate.calls[j].arg = gate.ret
        /\ prev.outcome = "none" =>
             (~gate.cached /\ Positions(gate.calls, "clear") = {})

\* a view turning eligible: the flag is written, the gutter is not cleared
C15_Witness ==
    /\ gate.outcome = "returned"
    /\ gate.ret /\ ~gate.cached
    /\ Positions(gate.calls, "settings.set") # {}
    /\ Positions(gate.calls, "clear") = {}
    /\ prev.outcome = "returned"

\* C18 (under SpecRaise): when clear() raises, the evaluation ends with the
\* exception and has written nothing: the mirrored flag and the cache are
\* both still True; they stay True through evaluations that compute True,
\* and the next evaluation that computes False calls clear() again.
C18_ClearFailureKeepsState ==
    /\ gate.outcome = "raised" =>
         /\ gate.cached /\ _enabled
         /\ view.git_gutter_enabled = Some(TRUE)
         /\ gate.calls # <<>>
         /\ gate.calls[Len(gate.calls)].fn = "clear"
         /\ Positions(gate.calls, "settings.set") = {}
         /\ Positions(gate.calls, "_enabled") = {}
    /\ (prev.outcome = "raised" /\ (gate.outcome = "raised" \/ ~gate.ret)) =>
         Cardinality(Positions(gate.calls, "clear")) = 1
    /\ (gate.outcome = "returned" /\ gate.ret) =>
         (_enabled /\ view.git_gutter_enabled = Some(TRUE))
    /\ (gate.cached /\ (gate.outcome = "raised" \/ ~gate.ret)) =>
         Cardinality(Positions(gate.calls, "clear")) = 1

\* a failed clear() followed by an evaluation that cleared and saved False
C18_Witness ==
    /\ prev.outcome = "raised"
    /\ gate.outcome = "returned" /\ ~gate.ret
    /\ Positions(gate.calls, "clear") # {}
    /\ ~_enabled
    /\ view.git_gutter_enabled = Some(FALSE)

(***************************************************************************)
(* Properties of the dispatcher (checked under SpecRun).                   *)
(***************************************************************************)
Dispatched == disp.outcome # "none"

EventMode == Dispatched /\ disp.kwargs.action = None

ActionMode == Dispatched /\ disp.kwargs.action # None

\* the event list of the last dispatch ([] when absent)
DispEvents == Get(disp.kwargs.event_type, {})

\* the steps only a gate evaluation performs
GateSteps == {"work_tree", "clear", "settings.set", "_enabled"}

\* C4 as stated: every run evaluates the gate before any handler, and
\* invokes no handler when the gate evaluates to False for its request.
C4_GatedDispatch ==
    Dispatched =>
        /\ ~disp.eligible => disp.calls = <<>>
        /\ disp.eligible =>
             /\ disp.calls # <<>>
             /\ disp.calls[1].fn = "work_tree"

\* C4 amended: run does not evaluate the gate.  An invocation performs no
\* gate step (no work tree resolution, no clear(), no write of the mirrored
\* flag or the cache) and, unless it asserts, invokes the handlers its
\* request selects whether or not the gate would pass the request; the gate
\* precedes a dispatch only when the caller evaluates is_enabled first.
C4_UngatedDispatch ==
    Dispatched =>
        /\ \A i \in DOMAIN disp.calls : disp.calls[i].fn \notin GateSteps
        /\ disp.outcome = "returned" => disp.calls # <<>>

\* a dispatch on a view the gate would have refused invoked a handler
C4_Witness ==
    /\ Dispatched /\ ~disp.eligible
    /\ view.is_scratch
    /\ disp.calls # <<>>

\* C5: an event-mode dispatch invalidates the git file iff its event list
\* holds a name other than 'load' and 'modified': never for ['modified'],
\* always and before the refresh when the list holds 'post-save'.
C5_InvalidateOnEvents ==
    EventMode =>
        /\ (Positions(disp.calls, "invalidate_git_file") # {})
             <=> (DispEvents \ {"load", "modified"} # {})
        /\ DispEvents = {"modified"} =>
             Positions(disp.calls, "invalidate_git_file") = {}
        /\ "post-save" \in DispEvents =>
             /\ Positions(disp.calls, "invalidate_git_file") = {1}
             /\ \A j \in Positions(disp.calls, "show_diff_handler.run") :
                    1 < j

\* 'modified' together with 'post-save': invalidated, then refreshed
C5_Witness ==
    /\ EventMode
    /\ DispEvents = {"modified", "post-save"}
    /\ Len(disp.calls) = 2
    /\ disp.calls[1].fn = "invalidate_git_file"

\* C6: every event-mode dispatch calls show_diff_handler.run() exactly
\* once, as its last call (after the invalidation when there is one), also
\* for [] and for no event_type; n such dispatches make n refresh calls.
C6_RefreshOncePerEvent ==
    /\ nRefresh = nEvent
    /\ EventMode =>
         /\ Positions(disp.calls, "show_diff_handler.run")
              = {Len(disp.calls)}
         /\ disp.calls # <<>>
         /\ disp.outcome = "returned"

\* two event-mode dispatches, the second without event_type
C6_Witness ==
    /\ EventMode
    /\ disp.kwargs.event_type = None
    /\ nEvent = 2 /\ nRefresh = 2

\* the operation each action identifier stands for
HandlerTable ==
    [a \in Actions |->
        CASE a = "jump_to_next_change" ->
                "GitGutterJumpToChanges.jump_to_next_change"
          [] a = "jump_to_prev_change" ->
                "GitGutterJumpToChanges.jump_to_prev_change"
          [] a = "compare_against_commit" -> "GitGutterCompareCommit.run"
          [] a = "compare_against_file_commit" ->
                "GitGutterCompareFileCommit.run"
          [] a = "compare_against_branch" -> "GitGutterCompareBranch.run"
          [] a = "compare_against_tag" -> "GitGutterCompareTag.run"
          [] a = "compare_against_head" -> "GitGutterCompareHead.run"
          [] a = "compare_against_origin" -> "GitGutterCompareOrigin.run"
          [] a = "show_compare" -> "GitGutterShowCompare.run"
          [] a = "show_diff_popup" -> "show_diff_popup"]

\* C7: an action-mode dispatch with an identifier of the fixed set invokes
\* exactly one handler, the one of that identifier, and distinct
\* identifiers select distinct operations.
C7_OneHandlerPerAction ==
    /\ (ActionMode /\ disp.kwargs.action[1] \in Actions) =>
         /\ disp.outcome = "returned"
         /\ Len(disp.calls) = 1
         /\ disp.calls[1].fn = HandlerTable[disp.kwargs.action[1]]
    /\ \A a, b \in Actions : a # b => HandlerTable[a] # HandlerTable[b]

\* a dispatch of compare_against_origin that also carries an event_type
C7_Witness ==
    /\ ActionMode
    /\ disp.kwargs.action = Some("compare_against_origin")
    /\ disp.kwargs.event_type # None
    /\ Len(disp.calls) = 1

\* C8: an action-mode dispatch with an identifier outside the fixed set
\* ends in the assertion failure and invokes no handler.
C8_UnknownActionAsserts ==
    (ActionMode /\ disp.kwargs.action[1] \notin Actions) =>
        /\ disp.outcome = "asserted"
        /\ disp.calls = <<>>

\* a dispatch of an unlisted identifier
C8_Witness ==
    /\ ActionMode
    /\ disp.kwargs.action = Some(UnknownAction)
    /\ disp.outcome = "asserted"

\* C11: the mode is selected by the presence of 'action' alone.  A request
\* with 'action' never invalidates the git file or refreshes, even when it
\* carries an event_type; a request without 'action' invokes no navigation,
\* comparison or popup handler.
C11_ModesExclusive ==
    /\ ActionMode =>
         /\ Positions(disp.calls, "invalidate_git_file") = {}
         /\ Positions(disp.calls, "show_diff_handler.run") = {}
    /\ EventMode =>
         \A i \in DOMAIN disp.calls :
            disp.calls[i].fn \in {"invalidate_git_file",
                                  "show_diff_handler.run"}

\* a sub command whose request carries ['post-save'] as well
C11_Witness ==
    /\ ActionMode
    /\ disp.kwargs.action = Some("show_compare")
    /\ disp.kwargs.event_type = Some({"post-save"})
    /\ disp.outcome = "returned"
    /\ Positions(disp.calls, "GitGutterShowCompare.run") = {1}

\* C13: a dispatch of show_diff_popup calls the popup renderer exactly once,
\* with the request's point, highlight_diff and flags unchanged and the
\* command's git_handler, and invokes nothing else.
C13_PopupPassThrough ==
    (ActionMode /\ disp.kwargs.action = Some("show_diff_popup")) =>
        /\ disp.outcome = "returned"
        /\ Len(disp.calls) = 1
        /\ disp.calls[1].fn = "show_diff_popup"
        /\ disp.calls[1].point = disp.kwargs.point[1]
        /\ disp.calls[1].arg = disp.kwargs.highlight_diff[1]
        /\ disp.calls[1].flags = disp.kwargs.flags[1]
        /\ disp.calls[1].handler = "git_handler"

\* point=120, highlight_diff=True, flags=0
C13_Witness ==
    /\ ActionMode
    /\ disp.kwargs.action = Some("show_diff_popup")
    /\ disp.kwargs.point = Some(120)
    /\ disp.kwargs.highlight_diff = Some(TRUE)
    /\ disp.kwargs.flags = Some(0)
    /\ Len(disp.calls) = 1
    /\ disp.calls[1].point = 120 /\ disp.calls[1].arg /\ disp.calls[1].flags = 0

\* C19: a step that dispatches (run, in either mode, also when it asserts)
\* leaves _enabled and the mirrored flag as they were; a step that changes
\* either of them is a gate evaluation.
C19_DispatchKeepsState ==
    [][/\ (disp' # disp \/ nEvent' # nEvent) =>
            /\ _enabled' = _enabled
            /\ view'.git_gutter_enabled = view.git_gutter_enabled
       /\ (\/ _enabled' # _enabled
           \/ view'.git_gutter_enabled # view.git_gutter_enabled) =>
            /\ gate' # gate
            /\ gate'.outcome = "returned"
            /\ Positions(gate'.calls, "settings.set") # {}]_vars

\* an unlisted identifier dispatched while the view is enabled
C19_Witness ==
    /\ ActionMode
    /\ disp.outcome = "asserted"
    /\ _enabled
    /\ view.git_gutter_enabled = Some(TRUE)

(***************************************************************************)
(* Properties of the convenience commands (checked under SpecAux).         *)
(***************************************************************************)
\* the identifier each convenience command stands for
HandlerAction(cmd) ==
    CASE cmd = "GitGutterShowCompareCommand" -> "show_compare"
      [] cmd = "GitGutterCompareHeadCommand" -> "compare_against_head"
      [] cmd = "GitGutterCompareOriginCommand" -> "compare_against_origin"
      [] cmd = "GitGutterCompareCommitCommand" -> "compare_against_commit"
      [] cmd = "GitGutterCompareFileCommitCommand" ->
            "compare_against_file_commit"
      [] cmd = "GitGutterCompareBranchCommand" -> "compare_against_branch"
      [] cmd = "GitGutterCompareTagCommand" -> "compare_against_tag"
      [] cmd = "GitGutterNextChangeCommand" -> "jump_to_next_change"
      [] cmd = "GitGutterPrevChangeCommand" -> "jump_to_prev_change"

\* the request a convenience command issued reached the router
Forwarded == disp.via \in ConvenienceCommands

\* the convenience commands that forward the identifier a
Forwarders(a) == {c \in ConvenienceCommands : ForwardedAction(c) = a}

\* C12 as stated: every identifier the router accepts is forwarded by some
\* convenience command, and a convenience command issues a request whose
\* identifier the router accepts.
C12_CommandPerAction ==
    /\ \A a \in Actions : Forwarders(a) # {}
    /\ Forwarded =>
         /\ disp.kwargs.action # None
         /\ disp.kwargs.action[1] \in Actions
         /\ disp.outcome = "returned"

\* C12 amended: there is exactly one convenience command for each accepted
\* identifier except show_diff_popup, which has none; a convenience command
\* issues one request, made of an accepted identifier and nothing else,
\* which the router answers with one handler call and never the assertion.
C12_CommandPerPlainAction ==
    /\ \A a \in Actions \ {"show_diff_popup"} :
          Cardinality(Forwarders(a)) = 1
    /\ Forwarders("show_diff_popup") = {}
    /\ Forwarded =>
         /\ disp.kwargs.action # None
         /\ disp.kwargs.action[1] \in Actions \ {"show_diff_popup"}
         /\ disp.kwargs.action[1] = HandlerAction(disp.via)
         /\ disp.kwargs = Kwargs(disp.kwargs.action, None, None, None, None)
         /\ disp.outcome = "returned"
         /\ Len(disp.calls) = 1

\* GitGutterCompareTagCommand reached GitGutterCompareTag.run
C12_Witness ==
    /\ Forwarded
    /\ disp.via = "GitGutterCompareTagCommand"
    /\ disp.outcome = "returned"
    /\ Positions(disp.calls, "GitGutterCompareTag.run") = {1}

\* C16: the enablement query of a convenience command returns the mirrored
\* flag (False when it was never written), evaluates no gate and changes
\* nothing; so it returns what the most recent gate evaluation returned,
\* and False when the gate was never evaluated or never returned True.
C16_QueryReadsFlag ==
    [][aux' # aux =>
        /\ aux'.ret = Get(view.git_gutter_enabled, FALSE)
        /\ view.git_gutter_enabled = None => ~aux'.ret
        /\ gate.outcome = "returned" => aux'.ret = gate.ret
        /\ gate.outcome = "none" => ~aux'.ret
        /\ <<view, _enabled, git_tree, gate, disp, prev>>'
             = <<view, _enabled, git_tree, gate, disp, prev>>]_vars

\* a query answered True after the gate returned True
C16_Witness ==
    /\ aux.cmd \in ConvenienceCommands
    /\ aux.ret
    /\ gate.outcome = "returned" /\ gate.ret
    /\ view.git_gutter_enabled = Some(TRUE)

(***************************************************************************)
(* Properties of interleaved gate evaluations (checked under SpecRace).    *)
(***************************************************************************)
\* C17 as stated: with two gate evaluations interleaved without a lock,
\* clear() is invoked at most once per change from eligible to ineligible,
\* and once both have completed the mirrored flag equals the cache.
C17_ClearOncePerChange ==
    /\ clears <= 1
    /\ Quiet => Get(view.git_gutter_enabled, FALSE) = _enabled

\* C17 amended: two interleaved evaluations may both call clear() for one
\* change from eligible to ineligible (each evaluation at most once, so at
\* most twice); once both have completed the mirrored flag equals the
\* cache.
C17_ClearOncePerEvaluation ==
    /\ clears <= Cardinality(Threads)
    /\ \A t \in Threads :
         Cardinality(Positions(threads[t].todo, "clear")) <= 1
    /\ Quiet => Get(view.git_gutter_enabled, FALSE) = _enabled

\* both evaluations have returned, each after its own clear()
C17_Witness ==
    /\ \A t \in Threads : threads[t].pc = "done"
    /\ clears = 2
    /\ ~_enabled
    /\ view.git_gutter_enabled = Some(FALSE)

=============================================================================
